---- MODULE Spec2Model ----
(***************************************************************************)
(* PhonemeUtils (jivas/phoneme_interact_action/modules/phoneme_utils.py):  *)
(* the phonetic text formatter, modelled as the sequence of passes that    *)
(* phonetic_format runs over one text, and as several such calls side by   *)
(* side.  Texts are TLA+ strings; a position p in 0..Len(s) is the offset  *)
(* between character p and character p + 1, as in Python's re module.      *)
(*                                                                         *)
(* Further down, each with a specification of its own: the entry points   *)
(* WppconnectAPI.parse_inbound_message and register_wppconnect_action,     *)
(* EmailAPI.move_email and get_new_emails against an IMAP account,         *)
(* UploadAndChunk.upload_and_chunk with its .temp directory, and           *)
(* FacebookAPI.parse_verification_request.                                 *)
(***************************************************************************)
EXTENDS Integers, Sequences, FiniteSets, TLC

VARIABLES orig, mapping, text, hist, pc, err, calls, shared_mapping, stripper_text,
          request, returned, step, folders, seen, malformed, temp,
          clock, can_break, status, qr_code, api_key, version

\* a handler that is a function of its request: the request it was called
\* with, the value it returned, and whether it has returned
handler == <<request, returned, step>>

\* the state of the modules other than PhonemeUtils
\* the IMAP server: the messages of each of its folders, the messages that
\* carry the \Seen flag, and the messages whose parts cannot be read
mailserver == <<folders, seen, malformed>>

\* register_wppconnect_action: the seconds since start_time and its locals
register == <<clock, can_break, status, qr_code, api_key, version>>

\* the modules other than PhonemeUtils; temp is the .temp directory of
\* upload_and_chunk, the content of each file in it
beyond == <<handler, mailserver, temp, register>>

\* the calls of phonetic_format that run side by side, the dict they were all
\* given, and the text list of the MLStripper objects that exist
conc == <<calls, shared_mapping, stripper_text>>

\* the state of PhonemeUtils
phoneme == <<orig, mapping, text, hist, pc, err, calls, shared_mapping, stripper_text>>

vars == <<phoneme, beyond>>

(***************************************************************************)
(* Bounds of the model.                                                    *)
(***************************************************************************)
\* the number of fragments an input text is put together from
MaxFrags == 3

\* the number of calls of phonetic_format that run side by side
NumCalls == 2

\* the number of messages in the inbox that get_new_emails reads
NumMessages == 3

\* the largest number of URLs given to upload_and_chunk
MaxUrls == 2

\* the seconds the requests of one polling iteration take at most
MaxLatency == 1

(***************************************************************************)
(* The modules at rest.                                                    *)
(***************************************************************************)
\* Python's None as the value a handler returned, and a dict d as that value
None == [none |-> TRUE, d |-> <<>>]

Dict(d) == [none |-> FALSE, d |-> d]

\* every module but those of busy is at rest: no call of it is under way
AtRest(busy) ==
    /\ IF "phoneme" \in busy THEN TRUE
       ELSE /\ orig = "" /\ mapping = <<>> /\ text = "" /\ hist = <<>>
            /\ pc = "idle" /\ err = ""
            /\ calls = <<>> /\ shared_mapping = <<>> /\ stripper_text = <<>>
    /\ IF "handler" \in busy THEN TRUE
       ELSE request = <<>> /\ returned = None /\ step = "idle"
    /\ IF "mailserver" \in busy THEN TRUE
       ELSE folders = <<>> /\ seen = {} /\ malformed = {}
    /\ IF "temp" \in busy THEN TRUE ELSE temp = <<>>
    /\ IF "register" \in busy THEN TRUE
       ELSE /\ clock = 0 /\ can_break = FALSE /\ status = "" /\ qr_code = ""
            /\ api_key = "" /\ version = ""

(***************************************************************************)
(* Characters.                                                             *)
(***************************************************************************)
Digit == {"0", "1", "2", "3", "4", "5", "6", "7", "8", "9"}

LowerChars == "abcdefghijklmnopqrstuvwxyz"

UpperChars == "ABCDEFGHIJKLMNOPQRSTUVWXYZ"

Lower == {SubSeq(LowerChars, i, i) : i \in 1..26}

Upper == {SubSeq(UpperChars, i, i) : i \in 1..26}

\* str.isalnum() on one ASCII character
IsAlnum(c) == c \in Digit \cup Lower \cup Upper

\* the class \w of re
IsWord(c) == IsAlnum(c) \/ c = "_"

\* the class \s of re
IsSpace(c) == c \in {" ", "\n", "\t", "\r"}

\* the character after offset p - 1, "" outside the string
At(s, i) == IF 1 <= i /\ i <= Len(s) THEN SubSeq(s, i, i) ELSE ""

\* the assertion \b of re at offset p
Boundary(s, p) == IsWord(At(s, p)) # IsWord(At(s, p + 1))

Min2(a, b) == IF a <= b THEN a ELSE b

MaxOf(S) == CHOOSE x \in S : \A y \in S : y <= x

\* s[p:q] of Python by offsets
Slice(s, p, q) == IF p >= Min2(q, Len(s)) THEN "" ELSE SubSeq(s, p + 1, Min2(q, Len(s)))

\* the offset at which the longest run of characters at the offsets K that
\* starts at offset p of s ends (a greedy [class]*, K the offsets of s whose
\* character is in the class)
RunEnd(s, p, K) ==
    CHOOSE e \in p..Len(s) :
        /\ \A k \in (p + 1)..e : k \in K
        /\ (e = Len(s) \/ (e + 1) \notin K)

\* the least of the offsets hits, -1 if there is none: where a scan of re
\* finds its next match, hits being the offsets from the scan's start on at
\* which the pattern matches
FirstAt(hits) ==
    IF hits = {} THEN -1 ELSE CHOOSE q \in hits : \A r \in hits : q <= r

\* str.find(sub, start): the least offset >= start at which sub occurs, -1 if none
Find(s, sub, start) ==
    LET hits == {p \in start..(Len(s) - Len(sub)) : Slice(s, p, p + Len(sub)) = sub}
    IN  IF hits = {} THEN -1 ELSE CHOOSE p \in hits : \A q \in hits : p <= q

\* str.replace(old, new, 1)
ReplaceFirst(s, old, new) ==
    LET p == Find(s, old, 0)
    IN  IF p < 0 THEN s
        ELSE Slice(s, 0, p) \o new \o Slice(s, p + Len(old), Len(s))

(***************************************************************************)
(* process_phone_numbers.  A phone pattern is written as its shape: d is   *)
(* (\d), s is [ -], a bracket is itself; every pattern is wrapped in \b    *)
(* ... \b and its replacement template joins the captured digits with '-'. *)
(***************************************************************************)
phone_patterns == <<"dddsdddsdddd", "(ddd)sdddsddd", "dddsdddd">>

TokenMatches(tok, c) ==
    CASE tok = "d" -> c \in Digit
      [] tok = "s" -> c \in {" ", "-"}
      [] OTHER -> c = tok

\* PhoneMatchAt with the closing \b left out
PhoneMatchAtNoClosingBoundary(s, p, shape) ==
    /\ p + Len(shape) <= Len(s)
    /\ Boundary(s, p)
    /\ \A k \in 1..Len(shape) : TokenMatches(At(shape, k), At(s, p + k))

\* the pattern matches at offset p
PhoneMatchAt(s, p, shape) ==
    /\ p + Len(shape) <= Len(s)
    /\ Boundary(s, p)
    /\ \A k \in 1..Len(shape) : TokenMatches(At(shape, k), At(s, p + k))
    /\ Boundary(s, p + Len(shape))

RECURSIVE JoinDigits(_, _, _, _)
\* the replacement template \1-\2-...: the captured digits joined by '-'
JoinDigits(s, p, shape, k) ==
    IF k > Len(shape) THEN ""
    ELSE IF At(shape, k) = "d"
         THEN (IF \E j \in 1..(k - 1) : At(shape, j) = "d" THEN "-" ELSE "")
              \o At(s, p + k) \o JoinDigits(s, p, shape, k + 1)
         ELSE JoinDigits(s, p, shape, k + 1)

\* re.search(pattern, text)
PhoneSearch(s, shape) == \E p \in 0..Len(s) : PhoneMatchAt(s, p, shape)

RECURSIVE PhoneSub(_, _, _)
\* re.sub(pattern, replacement, text) from offset p on
PhoneSub(s, p, shape) ==
    LET q == FirstAt({x \in p..Len(s) : PhoneMatchAt(s, x, shape)})
    IN  IF q < 0 THEN Slice(s, p, Len(s))
        ELSE Slice(s, p, q) \o JoinDigits(s, q, shape, 1)
             \o PhoneSub(s, q + Len(shape), shape)

\* one turn of the loop of process_phone_numbers
PhoneStep(s, k) ==
    IF PhoneSearch(s, phone_patterns[k]) THEN PhoneSub(s, 0, phone_patterns[k]) ELSE s

RECURSIVE PhoneLoop(_, _)
\* the for loop over phone_patterns, from pattern k on
PhoneLoop(s, k) ==
    IF k > Len(phone_patterns) THEN s
    ELSE PhoneLoop(PhoneStep(s, k), k + 1)

process_phone_numbers(s) == PhoneLoop(s, 1)

(***************************************************************************)
(* convert_each_char and create_tts: the character-spelling sub-routine.   *)
(***************************************************************************)
\* mappings.get(char, char) + '-' if char.isalnum() else mappings.get(char, '')
ConvertChar(c) ==
    IF IsAlnum(c) THEN c \o "-"
    ELSE CASE c = "." -> " dot "
           [] c = "-" -> " dash "
           [] c = "/" -> " slash "
           [] OTHER -> ""

RECURSIVE convert_each_char(_)
\* ''.join(... for char in part), halving the part
convert_each_char(part) ==
    IF Len(part) <= 1 THEN ConvertChar(part)
    ELSE convert_each_char(Slice(part, 0, Len(part) \div 2))
         \o convert_each_char(Slice(part, Len(part) \div 2, Len(part)))

RECURSIVE create_tts(_, _, _)
\* segment.split(splitter), every part but the last spelled and followed by
\* the separator, then the last part spelled
create_tts(segment, separator, splitter) ==
    LET p == Find(segment, splitter, 0)
    IN  IF p < 0 THEN convert_each_char(segment)
        ELSE convert_each_char(Slice(segment, 0, p)) \o separator
             \o create_tts(Slice(segment, p + 1, Len(segment)), separator, splitter)

(***************************************************************************)
(* process_urls and create_url_tts.                                        *)
(***************************************************************************)
RECURSIVE ReplaceAll(_, _, _)
\* str.replace(old, new), old not empty
ReplaceAll(s, old, new) ==
    LET p == Find(s, old, 0)
    IN  IF p < 0 THEN s
        ELSE Slice(s, 0, p) \o new \o ReplaceAll(Slice(s, p + Len(old), Len(s)), old, new)

create_url_tts(protocol, domain, path) ==
    LET proto == ReplaceAll(ReplaceAll(protocol, "https", "h-t-t-p-s"), "http", "h-t-t-p")
        tts == proto \o " colon slash slash " \o create_tts(domain, " dot ", ".")
    IN  (IF path # "" THEN tts \o " slash " \o create_tts(path, " slash ", "/") ELSE tts)
        \o " "

\* the nested function process_url of process_urls
process_url(url) ==
    LET i == Find(url, "://", 0)
        protocol == Slice(url, 0, i)
        remainder == Slice(url, i + 3, Len(url))
        j == Find(remainder, "/", 0)
        domain == IF j < 0 THEN remainder ELSE Slice(remainder, 0, j)
        path == IF j < 0 THEN "" ELSE Slice(remainder, j + 1, Len(remainder))
    IN  create_url_tts(protocol, domain, path)

NotSpace(c) == ~IsSpace(c)

\* url_pattern \b(?:http|https)://[^\s]*\b at offset p: the offset at which
\* the match ends, -1 if there is none.  [^\s]* is greedy and gives back
\* characters until \b holds.
UrlMatchEnd(s, p) ==
    LET a == IF Slice(s, p, p + 7) = "http://" THEN p + 7
             ELSE IF Slice(s, p, p + 8) = "https://" THEN p + 8 ELSE -1
    IN  IF ~Boundary(s, p) \/ a < 0 THEN -1
        ELSE LET ends == {e \in a..RunEnd(s, a, {k \in 1..Len(s) : NotSpace(At(s, k))}) : Boundary(s, e)}
             IN  IF ends = {} THEN -1 ELSE MaxOf(ends)

RECURSIVE UrlFindall(_, _)
\* url_pattern.findall(text) from offset p on
UrlFindall(s, p) ==
    LET q == FirstAt({x \in p..Len(s) : UrlMatchEnd(s, x) >= 0})
    IN  IF q < 0 THEN <<>>
        ELSE <<Slice(s, q, UrlMatchEnd(s, q))>> \o UrlFindall(s, UrlMatchEnd(s, q))

NotSpaceNorParen(c) == ~IsSpace(c) /\ c # ")"

\* markdown_pattern \[([^\]]*)\]\((http[^\s)]+)\) at offset p: <<label, url,
\* end>>, or <<>> if there is no match
MarkdownMatch(s, p) ==
    LET q == Find(s, "]", p + 1)
        e == RunEnd(s, q + 6, {k \in 1..Len(s) : NotSpaceNorParen(At(s, k))})
    IN  IF /\ At(s, p + 1) = "["
           /\ q >= 0
           /\ Slice(s, q + 1, q + 6) = "(http"
           /\ e > q + 6
           /\ At(s, e + 1) = ")"
        THEN <<Slice(s, p + 1, q), Slice(s, q + 2, e), e + 1>>
        ELSE <<>>

RECURSIVE MarkdownFindall(_, _)
\* markdown_pattern.findall(text) from offset p on: the (label, url) pairs
MarkdownFindall(s, p) ==
    LET q == FirstAt({x \in p..Len(s) : MarkdownMatch(s, x) # <<>>})
        m == MarkdownMatch(s, q)
    IN  IF q < 0 THEN <<>>
        ELSE <<<<m[1], m[2]>>>> \o MarkdownFindall(s, m[3])

RECURSIVE MarkdownLoop(_, _, _)
\* for label, url in markdown_urls, from pair k on
MarkdownLoop(s, found, k) ==
    IF k > Len(found) THEN s
    ELSE LET label == found[k][1]
             url == found[k][2]
         IN  MarkdownLoop(IF UrlMatchEnd(url, 0) >= 0
                          THEN ReplaceFirst(s, "[" \o label \o "](" \o url \o ")",
                                            process_url(url))
                          ELSE s, found, k + 1)

RECURSIVE PlainLoop(_, _, _)
\* for url in plain_urls, from url k on
PlainLoop(s, found, k) ==
    IF k > Len(found) THEN s
    ELSE PlainLoop(ReplaceFirst(s, found[k], process_url(found[k])), found, k + 1)

process_urls(s) ==
    LET t == MarkdownLoop(s, MarkdownFindall(s, 0), 1)
    IN  PlainLoop(t, UrlFindall(t, 0), 1)

(***************************************************************************)
(* process_emails.                                                         *)
(***************************************************************************)
EmailLocalChar(c) == IsAlnum(c) \/ c \in {"_", ".", "+", "-"}

EmailDomainChar(c) == IsAlnum(c) \/ c = "-"

EmailTailChar(c) == IsAlnum(c) \/ c \in {"-", "."}

\* email_pattern \b([a-zA-Z0-9_.+-]+@[a-zA-Z0-9-]+\.[a-zA-Z0-9-.]+)\b at offset
\* p: the offset at which the match ends, -1 if there is none
EmailMatchEnd(s, p) ==
    LET l == RunEnd(s, p, {k \in 1..Len(s) : EmailLocalChar(At(s, k))})
        d == RunEnd(s, l + 1, {k \in 1..Len(s) : EmailDomainChar(At(s, k))})
        m == RunEnd(s, d + 1, {k \in 1..Len(s) : EmailTailChar(At(s, k))})
        ends == {e \in (d + 2)..m : Boundary(s, e)}
    IN  IF /\ Boundary(s, p)
           /\ l > p
           /\ At(s, l + 1) = "@"
           /\ d > l + 1
           /\ At(s, d + 1) = "."
           /\ ends # {}
        THEN MaxOf(ends)
        ELSE -1

RECURSIVE EmailFindall(_, _)
\* re.findall(email_pattern, text) from offset p on
EmailFindall(s, p) ==
    LET q == FirstAt({x \in p..Len(s) : EmailMatchEnd(s, x) >= 0})
    IN  IF q < 0 THEN <<>>
        ELSE <<Slice(s, q, EmailMatchEnd(s, q))>> \o EmailFindall(s, EmailMatchEnd(s, q))

\* the spelled form of one address
EmailTts(email) ==
    LET i == Find(email, "@", 0)
    IN  create_tts(Slice(email, 0, i), " dot ", ".") \o " at "
        \o create_tts(Slice(email, i + 1, Len(email)), " dot ", ".")

RECURSIVE EmailLoop(_, _, _)
\* for email in emails, from address k on
EmailLoop(s, found, k) ==
    IF k > Len(found) THEN s
    ELSE EmailLoop(ReplaceFirst(s, found[k], EmailTts(found[k])), found, k + 1)

process_emails(s) == EmailLoop(s, EmailFindall(s, 0), 1)

(***************************************************************************)
(* process_word_replacements.  A mapping is the sequence of the dict's      *)
(* (key, value) pairs in insertion order, the keys distinct.  A result is   *)
(* [ok |-> TRUE, val |-> the text] or, when re.sub raises, [ok |-> FALSE,   *)
(* val |-> the exception].                                                 *)
(***************************************************************************)
LowerChar(c) ==
    IF c \in Upper
    THEN LET i == CHOOSE k \in 1..26 : SubSeq(UpperChars, k, k) = c
         IN  SubSeq(LowerChars, i, i)
    ELSE c

RECURSIVE ToLower(_)
\* the case folding of re.I on ASCII text, halving the text
ToLower(s) ==
    IF Len(s) <= 1 THEN LowerChar(s)
    ELSE ToLower(Slice(s, 0, Len(s) \div 2)) \o ToLower(Slice(s, Len(s) \div 2, Len(s)))

\* the keys in insertion order
KeysOf(m) == [i \in 1..Len(m) |-> m[i][1]]

\* mapping[key]
Lookup(m, key) == m[CHOOSE i \in 1..Len(m) : m[i][1] = key][2]

\* k put into ks, which is sorted by length, longest first: behind every key
\* at least as long (sorted is stable, reverse=True keeps the order of ties)
InsertKey(ks, k) ==
    LET n == Cardinality({i \in 1..Len(ks) : Len(ks[i]) >= Len(k)})
    IN  SubSeq(ks, 1, n) \o <<k>> \o SubSeq(ks, n + 1, Len(ks))

RECURSIVE SortFrom(_, _, _)
SortFrom(ks, done, i) ==
    IF i > Len(ks) THEN done ELSE SortFrom(ks, InsertKey(done, ks[i]), i + 1)

\* the keys taken as the dict gives them, not sorted
UnsortedKeys(m) == KeysOf(m)

\* sorted(mapping, key=len, reverse=True)
SortedKeys(m) == SortFrom(KeysOf(m), <<>>, 1)

\* the escapes of a replacement template that stand for one character (\a,
\* \b and \v, which a TLA+ string cannot hold, are not in the model's values)
TemplateEscapes == [c \in {"n", "t", "r", "f", "\\"} |->
    CASE c = "n" -> "\n" [] c = "t" -> "\t" [] c = "r" -> "\r" [] c = "f" -> "\f"
      [] OTHER -> "\\"]

\* the number of groups of the pattern (?<!\w)(key)(?!\w)
PatternGroups == 1

\* the group a \g<name> names, -1 if the name is no number of a group (the
\* model's values name groups by one digit)
GroupOfName(name) ==
    IF name = "0" THEN 0
    ELSE IF name = "1" THEN 1
    ELSE -1

RECURSIVE TemplateOk(_, _)
\* the replacement template parses from offset p on (re's parse_template:
\* a backslash at the end, before an ASCII letter that is no escape, or before
\* the number of a group the pattern does not have, is an error; the model's
\* values hold no octal escape and no two-digit group number)
TemplateOk(t, p) ==
    IF p >= Len(t) THEN TRUE
    ELSE IF At(t, p + 1) # "\\" THEN TemplateOk(t, p + 1)
    ELSE LET c == At(t, p + 2)
         IN  CASE c = "" -> FALSE
               [] c = "g" ->
                    LET k == Find(t, ">", p + 2)
                    IN  /\ At(t, p + 3) = "<"
                        /\ k >= 0
                        /\ GroupOfName(Slice(t, p + 3, k)) >= 0
                        /\ GroupOfName(Slice(t, p + 3, k)) <= PatternGroups
                        /\ TemplateOk(t, k + 1)
               [] c \in Digit \ {"0"} ->
                    c = "1" /\ TemplateOk(t, p + 2)
               [] c \in DOMAIN TemplateEscapes -> TemplateOk(t, p + 2)
               [] c \in Lower \cup Upper -> FALSE
               [] OTHER -> TemplateOk(t, p + 2)

RECURSIVE Expand(_, _, _)
\* the text a valid template stands for, from offset p on, for a match whose
\* text (groups 0 and 1) is g
Expand(t, p, g) ==
    IF p >= Len(t) THEN ""
    ELSE IF At(t, p + 1) # "\\" THEN At(t, p + 1) \o Expand(t, p + 1, g)
    ELSE LET c == At(t, p + 2)
         IN  CASE c = "g" -> g \o Expand(t, Find(t, ">", p + 2) + 1, g)
               [] c \in Digit \ {"0"} -> g \o Expand(t, p + 2, g)
               [] c \in DOMAIN TemplateEscapes ->
                    TemplateEscapes[c] \o Expand(t, p + 2, g)
               [] OTHER -> "\\" \o c \o Expand(t, p + 2, g)

\* the characters re.escape puts a backslash before
SpecialChars ==
    {"(", ")", "[", "]", "{", "}", "?", "*", "+", "-", "|", "^", "$", "\\",
     ".", "&", "~", "#", " ", "\t", "\n", "\r", "\f"}

\* a key given to the pattern as it is
re_escape_none(key) == key

RECURSIVE re_escape(_)
\* re.escape(key), halving the key
re_escape(key) ==
    IF Len(key) = 0 THEN ""
    ELSE IF Len(key) = 1
         THEN (IF key \in SpecialChars THEN "\\" \o key ELSE key)
    ELSE re_escape(Slice(key, 0, Len(key) \div 2))
         \o re_escape(Slice(key, Len(key) \div 2, Len(key)))

RECURSIVE PatternTokens(_, _)
\* what re compiles the body of the group of (?<!\w)(body)(?!\w) to, from
\* offset p on: <<"lit", c>> for a character or an escaped special character,
\* <<"any", "">> for a dot, <<"err", "">> where the pattern does not compile
\* (a backslash that closes the body and so escapes the group's parenthesis, a
\* parenthesis or bracket that is not closed, a repeat with nothing to
\* repeat).  The keys of the model hold ( and [ unclosed and hold * + ? only
\* as their first character.
PatternTokens(body, p) ==
    IF p >= Len(body) THEN <<>>
    ELSE LET c == At(body, p + 1)
         IN  IF c = "\\"
             THEN (IF p + 2 > Len(body) THEN <<<<"err", "">>>>
                   ELSE <<<<"lit", At(body, p + 2)>>>> \o PatternTokens(body, p + 2))
             ELSE (IF c = "." THEN <<<<"any", "">>>>
                   ELSE IF c \in {"(", ")", "[", "*", "+", "?"} THEN <<<<"err", "">>>>
                   ELSE <<<<"lit", c>>>>)
                  \o PatternTokens(body, p + 1)

\* re.compile accepts the pattern of the key
PatternOk(key) ==
    LET toks == PatternTokens(re_escape(key), 0)
    IN  \A i \in 1..Len(toks) : toks[i][1] # "err"

\* the compiled body matches the characters of s from offset p on, with re.I
BodyMatchesAt(s, p, toks) ==
    /\ p + Len(toks) <= Len(s)
    /\ \A i \in 1..Len(toks) :
          IF toks[i][1] = "any" THEN At(s, p + i) # "\n"
          ELSE LowerChar(At(s, p + i)) = LowerChar(toks[i][2])

\* WordMatchAt without the lookahead (?!\w)
WordMatchAtNoLookahead(s, p, key) ==
    /\ ~IsWord(At(s, p))
    /\ BodyMatchesAt(s, p, PatternTokens(re_escape(key), 0))

\* the pattern (?<!\w)(escaped_key)(?!\w) with re.I matches at offset p
WordMatchAt(s, p, key) ==
    LET toks == PatternTokens(re_escape(key), 0)
    IN  /\ ~IsWord(At(s, p))
        /\ BodyMatchesAt(s, p, toks)
        /\ ~IsWord(At(s, p + Len(toks) + 1))

RECURSIVE WordSub(_, _, _, _)
\* re.sub(pattern, repl, text, flags=re.I) from offset p on, repl a valid
\* template; an empty match is replaced and the character after it copied
WordSub(s, p, key, repl) ==
    LET q == IF p > Len(s) THEN -1 ELSE FirstAt({x \in p..Len(s) : WordMatchAt(s, x, key)})
    IN  IF q < 0 THEN Slice(s, p, Len(s))
        ELSE Slice(s, p, q) \o Expand(repl, 0, Slice(s, q, q + Len(key)))
             \o (IF key = "" THEN At(s, q + 1) \o WordSub(s, q + 1, key, repl)
                 ELSE WordSub(s, q + Len(key), key, repl))

RECURSIVE WordLoop(_, _, _, _)
\* for key in sorted(mapping, key=len, reverse=True), from key k on; re.sub
\* compiles the pattern and parses the template before it looks for a match
WordLoop(s, m, keys, k) ==
    IF k > Len(keys) THEN [ok |-> TRUE, val |-> s]
    ELSE IF ~PatternOk(keys[k]) \/ ~TemplateOk(Lookup(m, keys[k]), 0)
         THEN [ok |-> FALSE, val |-> "re.error"]
    ELSE WordLoop(WordSub(s, 0, keys[k], Lookup(m, keys[k])), m, keys, k + 1)

process_word_replacements(s, m) == WordLoop(s, m, SortedKeys(m), 1)

(***************************************************************************)
(* remove_markdown and strip_tags.                                         *)
(***************************************************************************)
\* the offset at which the line that holds offset p ends
LineEnd(s, p) ==
    LET q == Find(s, "\n", p)
    IN  IF q < 0 THEN Len(s) ELSE q

RECURSIVE SubHeaders(_, _)
\* re.sub(r"^#.*$", "", md, flags=re.MULTILINE) from the line starting at
\* offset p on
SubHeaders(s, p) ==
    IF p >= Len(s) THEN ""
    ELSE LET e == LineEnd(s, p)
             line == IF At(s, p + 1) = "#" THEN "" ELSE Slice(s, p, e)
         IN  IF e >= Len(s) THEN line
             ELSE line \o "\n" \o SubHeaders(s, e + 1)

\* r"\[.*\]\(.*\)" at offset p: the offset at which the match ends, -1 if
\* there is none.  Both .* are greedy and stay on the line: the match runs to
\* the last ')' of the line that some "](" precedes.
LinkMatchEnd(s, p) ==
    LET e == LineEnd(s, p)
        closes == {r \in (p + 1)..e : At(s, r) = ")"}
        last == MaxOf(closes)
    IN  IF /\ At(s, p + 1) = "["
           /\ closes # {}
           /\ \E q \in (p + 1)..(last - 2) : Slice(s, q, q + 2) = "]("
        THEN last
        ELSE -1

RECURSIVE SubLinks(_, _)
\* re.sub(r"\[.*\]\(.*\)", "", md) from offset p on
SubLinks(s, p) ==
    LET q == FirstAt({x \in p..Len(s) : LinkMatchEnd(s, x) >= 0})
    IN  IF q < 0 THEN Slice(s, p, Len(s))
        ELSE Slice(s, p, q) \o SubLinks(s, LinkMatchEnd(s, q))

RECURSIVE SubEmphasis(_, _)
\* re.sub of the class of '*', '~' and the backquote, {1,2}, by "", from
\* offset p on (the texts of the model hold no backquote)
SubEmphasis(s, p) ==
    LET q == FirstAt({x \in p..Len(s) : At(s, x + 1) \in {"*", "~"}})
        e == IF At(s, q + 2) \in {"*", "~"} THEN q + 2 ELSE q + 1
    IN  IF q < 0 THEN Slice(s, p, Len(s))
        ELSE Slice(s, p, q) \o SubEmphasis(s, e)

RuleChar(c) == c \in {"-", "*"}

\* r"[-\*]{3,}|[>\-\*]\s" at offset p: the offset at which the match ends, -1
\* if there is none
ListMatchEnd(s, p) ==
    LET e == RunEnd(s, p, {k \in 1..Len(s) : RuleChar(At(s, k))})
    IN  IF e >= p + 3 THEN e
        ELSE IF At(s, p + 1) \in {">", "-", "*"} /\ IsSpace(At(s, p + 2)) THEN p + 2
        ELSE -1

RECURSIVE SubLists(_, _)
\* re.sub(r"[-\*]{3,}|[>\-\*]\s", "", md) from offset p on
SubLists(s, p) ==
    LET q == FirstAt({x \in p..Len(s) : ListMatchEnd(s, x) >= 0})
    IN  IF q < 0 THEN Slice(s, p, Len(s))
        ELSE Slice(s, p, q) \o SubLists(s, ListMatchEnd(s, q))

RECURSIVE StripFrom(_, _)
\* MLStripper.feed(html) followed by get_data(), from offset p on (HTMLParser.
\* goahead with convert_charrefs, on texts without '&', '!', '?', '=' and
\* quotes): the text up to the next '<' is data; '<' and a letter or '/'
\* opens a tag that runs to the next '>', and is left in the buffer, with all
\* that follows it, when there is no '>'; another '<' is data unless it is the
\* last character, which is left in the buffer.  get_data() returns the data
\* handled; the buffer is never flushed, since close() is not called.
StripFrom(s, p) ==
    IF p >= Len(s) THEN ""
    ELSE LET j == Find(s, "<", p)
         IN  IF j < 0 THEN Slice(s, p, Len(s))
             ELSE Slice(s, p, j) \o
                  (IF At(s, j + 2) \in Lower \cup Upper \cup {"/"}
                   THEN LET k == Find(s, ">", j + 1)
                        IN  IF k < 0 THEN "" ELSE StripFrom(s, k + 1)
                   ELSE IF j + 1 < Len(s) THEN "<" \o StripFrom(s, j + 1)
                   ELSE "")

strip_tags(html) == StripFrom(html, 0)

\* str.strip()
Strip(s) ==
    LET keep == {i \in 1..Len(s) : ~IsSpace(At(s, i))}
    IN  IF keep = {} THEN ""
        ELSE SubSeq(s, CHOOSE i \in keep : \A j \in keep : i <= j, MaxOf(keep))

remove_markdown(md) ==
    Strip(strip_tags(SubLists(SubEmphasis(SubLinks(SubHeaders(md, 0), 0), 0), 0)))

(***************************************************************************)
(* phonetic_format: one call, pass by pass.  orig and mapping are the      *)
(* arguments, text is the local variable text, hist holds the value of     *)
(* text after each step that has run (the three phone patterns, then the   *)
(* four other passes), pc is the step that ran last and err the exception  *)
(* that left the call, if one did.                                         *)
(***************************************************************************)
RECURSIVE Concats(_, _)
\* the texts put together from at most n fragments of F
Concats(F, n) ==
    IF n = 0 THEN {""}
    ELSE LET S == Concats(F, n - 1) IN S \cup {a \o f : a \in S, f \in F}

InitCall(texts, mappings) ==
    /\ orig \in texts
    /\ mapping \in mappings
    /\ text = orig
    /\ hist = <<>>
    /\ pc = "start"
    /\ err = ""
    /\ calls = <<>>
    /\ shared_mapping = <<>>
    /\ stripper_text = <<>>
    /\ AtRest({"phoneme"})

\* the value of pc after the k-th pattern of phone_patterns has been applied
PhonePc(k) ==
    CASE k = 0 -> "start"
      [] k = Len(phone_patterns) -> "phone"
      [] OTHER -> IF k = 1 THEN "phone1" ELSE "phone2"

\* text = PhonemeUtils.process_phone_numbers(text), one pattern at a time
ProcessPhoneNumbers ==
    \E k \in 1..Len(phone_patterns) :
        /\ pc = PhonePc(k - 1)
        /\ text' = PhoneStep(text, k)
        /\ hist' = Append(hist, text')
        /\ pc' = PhonePc(k)
        /\ UNCHANGED <<orig, mapping, err, conc, beyond>>

\* ProcessUrls run on the text phonetic_format was called with, not on the
\* output of the phone pass
ProcessUrlsOfInput ==
    /\ pc = "phone"
    /\ text' = process_urls(orig)
    /\ hist' = Append(hist, text')
    /\ pc' = "urls"
    /\ UNCHANGED <<orig, mapping, err, conc, beyond>>

\* text = PhonemeUtils.process_urls(text, url_pattern, markdown_pattern)
ProcessUrls ==
    /\ pc = "phone"
    /\ text' = process_urls(text)
    /\ hist' = Append(hist, text')
    /\ pc' = "urls"
    /\ UNCHANGED <<orig, mapping, err, conc, beyond>>

\* text = PhonemeUtils.process_emails(text, email_pattern)
ProcessEmails ==
    /\ pc = "urls"
    /\ text' = process_emails(text)
    /\ hist' = Append(hist, text')
    /\ pc' = "emails"
    /\ UNCHANGED <<orig, mapping, err, conc, beyond>>

\* text = PhonemeUtils.process_word_replacements(text, mapping); an exception
\* of re.sub leaves phonetic_format
ProcessWordReplacements ==
    /\ pc = "emails"
    /\ LET r == process_word_replacements(text, mapping)
       IN  IF r.ok
           THEN /\ text' = r.val
                /\ hist' = Append(hist, r.val)
                /\ pc' = "words"
                /\ err' = err
           ELSE /\ pc' = "raised"
                /\ err' = r.val
                /\ UNCHANGED <<text, hist>>
    /\ UNCHANGED <<orig, mapping, conc, beyond>>

\* text = PhonemeUtils.remove_markdown(text); return text
RemoveMarkdown ==
    /\ pc = "words"
    /\ text' = remove_markdown(text)
    /\ hist' = Append(hist, text')
    /\ pc' = "done"
    /\ UNCHANGED <<orig, mapping, err, conc, beyond>>

\* the caller passes the returned text to PhonemeUtils.remove_markdown once more
RemoveMarkdownAgain ==
    /\ pc = "done"
    /\ text' = remove_markdown(text)
    /\ hist' = Append(hist, text')
    /\ pc' = "restripped"
    /\ UNCHANGED <<orig, mapping, err, conc, beyond>>

Next ==
    \/ ProcessPhoneNumbers
    \/ ProcessUrls
    \/ ProcessEmails
    \/ ProcessWordReplacements
    \/ RemoveMarkdown
    \/ RemoveMarkdownAgain

(***************************************************************************)
(* The calls checked: texts of phone numbers.                              *)
(***************************************************************************)
PhoneFragments ==
    {"123-456", " 7890 ", "987-6543", "(555) 444 333", "(555)-444-333",
     "x", " ", "-", "_", "1"}

InitPhone == InitCall(Concats(PhoneFragments, MaxFrags), {<<>>})

SpecPhone == InitPhone /\ [][Next]_vars

(***************************************************************************)
(* The calls checked: texts that hold a phone number, a URL, an address, a *)
(* key of the mapping and markdown, with mappings whose values are plain   *)
(* or hold a backslash.                                                    *)
(***************************************************************************)
MixedFragments ==
    {"987-6543 ", "http://a.b/", "x@y.z", " *NASA*", " ", "# ", "[l](", ")"}

MixedMappings ==
    {<<>>,
     <<<<"NASA", "N-A-S-A">>>>,
     <<<<"zz", "\\q">>>>}

Init == InitCall(Concats(MixedFragments, MaxFrags), MixedMappings)

Spec == Init /\ [][Next]_vars

(***************************************************************************)
(* The calls checked: texts of markdown and HTML.                          *)
(***************************************************************************)
MarkdownFragments ==
    {"#", "*", "-", " ", "\n", "x", "[l](u)", "<b>", ">"}

InitMarkdown == InitCall(Concats(MarkdownFragments, MaxFrags), {<<>>})

SpecMarkdown == InitMarkdown /\ [][Next]_vars

(***************************************************************************)
(* The calls checked: texts of URLs.                                       *)
(***************************************************************************)
UrlFragments ==
    {"https://", "http://", "example.com", "/page", "a.b", " ", "x", "[l](", ")"}

InitUrl == InitCall(Concats(UrlFragments, MaxFrags), {<<>>})

SpecUrl == InitUrl /\ [][Next]_vars

(***************************************************************************)
(* The calls checked: texts of email addresses.                            *)
(***************************************************************************)
EmailFragments ==
    {"a.b", "@", "example.com", "x", " ", ".", "-", "_", "@b.c"}

InitEmail == InitCall(Concats(EmailFragments, MaxFrags), {<<>>})

SpecEmail == InitEmail /\ [][Next]_vars

(***************************************************************************)
(* The calls checked: texts of markdown links and bare URLs.               *)
(***************************************************************************)
LinkFragments ==
    {"[l](http://a.b)", "[q](https://c.d/e) ", "http://a.b", " http://a.b",
     "http://x", "x", "[l](", ")", "/e"}

InitLink == InitCall(Concats(LinkFragments, MaxFrags), {<<>>})

SpecLink == InitLink /\ [][Next]_vars

(***************************************************************************)
(* The calls checked: texts that hold a phrase and a word of it, with a    *)
(* mapping that has both as keys, inserted in either order.                *)
(***************************************************************************)
PhraseFragments == {"Visit ", "NASA", " HQ", "NASA HQ", " today", "nasa hq", "x"}

PhraseMappings ==
    {<<<<"NASA", "N-A-S-A">>, <<"NASA HQ", "N-A-S-A Headquarters">>>>,
     <<<<"NASA HQ", "N-A-S-A Headquarters">>, <<"NASA", "N-A-S-A">>>>}

InitPhrase == InitCall(Concats(PhraseFragments, MaxFrags), PhraseMappings)

SpecPhrase == InitPhrase /\ [][Next]_vars

(***************************************************************************)
(* The calls checked: mappings of two keys, of the same length or not,     *)
(* inserted in either order, one value being the other key.                *)
(***************************************************************************)
OrderFragments == {"ab", "cd", "ef", "AB", " ", "x", "-"}

OrderMappings ==
    {<<<<"ab", "cd">>, <<"cd", "ef">>>>,
     <<<<"cd", "ef">>, <<"ab", "cd">>>>,
     <<<<"ab", "x">>, <<"ab cd", "ab">>>>,
     <<<<"ab cd", "ab">>, <<"ab", "x">>>>}

InitOrder == InitCall(Concats(OrderFragments, MaxFrags), OrderMappings)

SpecOrder == InitOrder /\ [][Next]_vars

(***************************************************************************)
(* The calls checked: texts in which the key of the mapping stands as a    *)
(* term and inside longer words.                                           *)
(***************************************************************************)
TermFragments == {"cat", "category", "Cat", "s", " ", "_", "-", "x", "9"}

TermMappings == {<<<<"cat", "feline">>>>, <<<<"cat-", "kit">>>>}

InitTerm == InitCall(Concats(TermFragments, MaxFrags), TermMappings)

SpecTerm == InitTerm /\ [][Next]_vars

(***************************************************************************)
(* The calls checked: a key written in several letter cases, with values   *)
(* that are plain, name a group, or hold an escape.                        *)
(***************************************************************************)
CaseFragments == {"say ", "NaSa", "nasa", "NASA", " now", "x", " "}

CaseMappings ==
    {<<<<"nasa", "N-A-S-A">>>>,
     <<<<"nasa", "A\\1">>>>,
     <<<<"nasa", "a\\nb">>>>,
     <<<<"nasa", "a\\\\b">>>>}

InitCase == InitCall(Concats(CaseFragments, MaxFrags), CaseMappings)

SpecCase == InitCase /\ [][Next]_vars

(***************************************************************************)
(* The calls checked: keys that hold special characters of re.             *)
(***************************************************************************)
KeyFragments == {"a.b", "axb", "(", "*", "\\", "[x", "?", " "}

KeyMappings ==
    {<<<<"a.b", "dot">>>>,
     <<<<"(", "paren">>>>,
     <<<<"*", "star">>>>,
     <<<<"\\", "backslash">>>>,
     <<<<"[x", "bracket">>>>}

InitKey == InitCall(Concats(KeyFragments, MaxFrags), KeyMappings)

SpecKey == InitKey /\ [][Next]_vars

(***************************************************************************)
(* The calls checked: texts of a heading line, bold text and a link.       *)
(***************************************************************************)
HeadingFragments ==
    {"# Title\n", "# Title", "**bold** ", "**bold**", "[link](http://x.com)",
     "\n", "x", " "}

InitHeading == InitCall(Concats(HeadingFragments, MaxFrags), {<<>>})

SpecHeading == InitHeading /\ [][Next]_vars

(***************************************************************************)
(* Calls of phonetic_format side by side.  calls[i] is the i-th call: arg  *)
(* the text it was called with, text its local variable text, pc the step  *)
(* it ran last.  All calls were given the same dict, shared_mapping.       *)
(* remove_markdown is taken in the steps in which it touches an MLStripper *)
(* object: the four re.sub, s = MLStripper(), s.feed(html), s.get_data().  *)
(* stripper_text[k] is the text list of the k-th MLStripper object, joined.*)
(***************************************************************************)
CallIds == 1..NumCalls

single == <<orig, mapping, text, hist, pc, err>>

\* one MLStripper object for all calls
SharedStripper(i) == 1

\* the MLStripper object strip_tags makes in call i: one of its own
StripperOf(i) == i

\* call i goes on to step to with t as its text
CallGoes(i, from, to, t) ==
    /\ calls[i].pc = from
    /\ calls' = [calls EXCEPT ![i].text = t, ![i].pc = to]
    /\ UNCHANGED <<single, shared_mapping, beyond>>

CallProcessPhoneNumbers ==
    \E i \in CallIds :
        /\ CallGoes(i, "start", "phone", process_phone_numbers(calls[i].text))
        /\ UNCHANGED stripper_text

CallProcessUrls ==
    \E i \in CallIds :
        /\ CallGoes(i, "phone", "urls", process_urls(calls[i].text))
        /\ UNCHANGED stripper_text

CallProcessEmails ==
    \E i \in CallIds :
        /\ CallGoes(i, "urls", "emails", process_emails(calls[i].text))
        /\ UNCHANGED stripper_text

\* reads the dict, writes nothing to it
CallProcessWordReplacements ==
    \E i \in CallIds :
        LET r == process_word_replacements(calls[i].text, shared_mapping)
        IN  /\ IF r.ok THEN CallGoes(i, "emails", "words", r.val)
               ELSE CallGoes(i, "emails", "raised", calls[i].text)
            /\ UNCHANGED stripper_text

\* remove_markdown: the four re.sub
CallMarkdownSubs ==
    \E i \in CallIds :
        /\ CallGoes(i, "words", "subs",
                    SubLists(SubEmphasis(SubLinks(SubHeaders(calls[i].text, 0), 0), 0), 0))
        /\ UNCHANGED stripper_text

\* strip_tags: s = MLStripper(), whose __init__ sets self.text = []
CallNewStripper ==
    \E i \in CallIds :
        /\ CallGoes(i, "subs", "stripper", calls[i].text)
        /\ stripper_text' = [stripper_text EXCEPT ![StripperOf(i)] = ""]

\* strip_tags: s.feed(html), whose handle_data appends to self.text
CallFeed ==
    \E i \in CallIds :
        /\ CallGoes(i, "stripper", "fed", calls[i].text)
        /\ stripper_text' =
              [stripper_text EXCEPT ![StripperOf(i)] = @ \o StripFrom(calls[i].text, 0)]

\* strip_tags: return s.get_data(); remove_markdown: return md.strip();
\* phonetic_format: return text
CallGetData ==
    \E i \in CallIds :
        /\ CallGoes(i, "fed", "done", Strip(stripper_text[StripperOf(i)]))
        /\ UNCHANGED stripper_text

NextConcurrent ==
    \/ CallProcessPhoneNumbers
    \/ CallProcessUrls
    \/ CallProcessEmails
    \/ CallProcessWordReplacements
    \/ CallMarkdownSubs
    \/ CallNewStripper
    \/ CallFeed
    \/ CallGetData

ConcurrentTexts == {"<b>x</b>", "a<i>b", "987-6543", "NASA", "*y*"}

ConcurrentMappings == {<<>>, <<<<"NASA", "N-A-S-A">>>>}

InitConcurrent ==
    /\ orig = "" /\ mapping = <<>> /\ text = "" /\ hist = <<>>
    /\ pc = "idle" /\ err = ""
    /\ calls \in [CallIds -> {[arg |-> t, text |-> t, pc |-> "start"] : t \in ConcurrentTexts}]
    /\ shared_mapping \in ConcurrentMappings
    /\ stripper_text = [i \in CallIds |-> ""]
    /\ AtRest({"phoneme"})

SpecConcurrent == InitConcurrent /\ [][NextConcurrent]_vars

(***************************************************************************)
(* WppconnectAPI.parse_inbound_message                                     *)
(* (jivas/wppconnect_action/modules/wppconnect_api.py).  A dict is a       *)
(* function from its keys; a value is the record of its Python type and    *)
(* its content, a dict value being told by its "_serialized" entry.        *)
(***************************************************************************)
Val(kind, s) == [kind |-> kind, s |-> s]

valid_events == {"onmessage", "onpollresponse", "onack"}

\* the payload of lines 67-78 and what lines 80-116 add to it, for a request
\* on which none of these lines raises
Payload(data) ==
    LET get(k, default) == IF k \in DOMAIN data THEN data[k] ELSE default
        number(k) == Val("str", ReplaceAll(get(k, Val("str", "")).s, "@c.us", ""))
        sender == number("from")
        author == number("author")
        event_type == get("dataType", get("event", Val("str", "")))
        message_type == get("type", Val("str", ""))
        is(v, S) == v.kind = "str" /\ v.s \in S
        body == "media" :> get("body", Val("str", ""))
        first ==
            [sender_number |-> sender,
             message_id |-> get("id", Val("str", "")),
             event_type |-> event_type,
             message_type |-> message_type,
             fromMe |-> Val("bool", "False"),
             author |-> author,
             agent_number |-> number("to"),
             caption |-> get("caption", Val("str", "")),
             location |-> get("location", Val("dict", "")),
             isGroup |-> Val("bool", IF author.s # "" /\ sender.s # "" /\ author # sender
                                     THEN "True" ELSE "False")]
        parent == IF "quotedMsg" \in DOMAIN data
                  THEN "parent_message" :> data["quotedMsg"] ELSE <<>>
        media ==
            CASE is(message_type, {"chat"}) ->
                    "body" :> get("content", Val("str", ""))
              [] is(message_type, {"image", "video", "document"}) ->
                    body @@ ("filename" :> get("filename", Val("str", "")))
                         @@ ("mime_type" :> get("mimetype", Val("str", "")))
              [] is(message_type, {"location"}) -> <<>>
              [] is(message_type, {"audio", "ptt", "sticker"}) -> body
              [] is(message_type, {"contacts", "vcard"}) ->
                    "contact" :> get("body", Val("dict", ""))
              [] is(event_type, {"onpollresponse"}) ->
                    ("poll_id" :> Val("str", get("msgId", Val("dict", "")).s))
                    @@ ("selectedOptions" :> get("selectedOptions", Val("str", "")))
              [] OTHER -> <<>>
    IN  media @@ parent @@ first

\* one of lines 67-116 raises on the request: replace is called on the
\* from, author or to entry that is not a str, or get on the msgId entry
\* that is not a dict
ParsingRaises(data) ==
    \/ \E k \in {"from", "author", "to"} : k \in DOMAIN data /\ data[k].kind # "str"
    \/ /\ "poll_id" \in DOMAIN Payload(data)
       /\ "msgId" \in DOMAIN data /\ data["msgId"].kind # "dict"

\* the value parse_inbound_message returns
parse_inbound_message(data) ==
    LET sender_name == IF "notifyName" \in DOMAIN data THEN data["notifyName"]
                       ELSE Val("str", "")
    IN  IF ~("event" \in DOMAIN data /\ data["event"].kind = "str"
             /\ data["event"].s \in valid_events)
        THEN Dict(<<>>)
        ELSE IF ParsingRaises(data) THEN Dict(<<>>)
        ELSE IF sender_name.s # ""
             THEN Dict(("sender_name" :> sender_name) @@ Payload(data))
             ELSE None

\* the requests of the model: each entry absent or one of a few values
Options(k, V) == {<<>>} \cup {k :> v : v \in V}

InboundRequests ==
    {e @@ f @@ a @@ t @@ m @@ n @@ q :
        e \in Options("event", {Val("str", "onmessage"), Val("str", "onpollresponse"),
                                Val("str", "onack"), Val("str", "onpresence"),
                                Val("int", "7")}),
        f \in Options("from", {Val("str", "1@c.us"), Val("int", "1")}),
        a \in Options("author", {Val("str", "2@c.us")}),
        t \in Options("type", {Val("str", "chat"), Val("str", "image"),
                               Val("str", "poll")}),
        m \in Options("msgId", {Val("dict", "m1"), Val("str", "m1")}),
        n \in Options("notifyName", {Val("str", ""), Val("str", "Al")}),
        q \in Options("quotedMsg", {Val("dict", "m0")})}

ParseInboundMessage ==
    /\ step = "called"
    /\ returned' = parse_inbound_message(request)
    /\ step' = "returned"
    /\ UNCHANGED <<request, phoneme, mailserver, temp, register>>

InitInbound ==
    /\ AtRest({"handler"})
    /\ request \in InboundRequests /\ returned = None /\ step = "called"

SpecInbound == InitInbound /\ [][ParseInboundMessage]_vars

(***************************************************************************)
(* EmailAPI.move_email and EmailAPI.get_new_emails                         *)
(* (jivas/email_action/modules/email_api.py), against an IMAP server: the  *)
(* folders of the account with the messages each holds, and the flags.     *)
(***************************************************************************)
\* default_list as the host binds it; with any other host the name stays
\* unbound (move_email) or the call returns at once (get_new_emails)
default_list(host) ==
    CASE host = "imap.outlook.com" ->
            [inbox |-> "Inbox", sent |-> "Sent", drafts |-> "Drafts",
             junk |-> "Junk", trash |-> "Deleted", notes |-> "Notes",
             archive |-> "Archive"]
      [] host = "imap.gmail.com" ->
            [inbox |-> "inbox", sent |-> "\"[Gmail]/Sent Mail\"",
             drafts |-> "\"[Gmail]/Drafts\"", junk |-> "\"[Gmail]/Spam\"",
             trash |-> "\"[Gmail]/Trash\"", important |-> "\"[Gmail]/Important\"",
             all |-> "\"[Gmail]/All Mail\""]
      [] OTHER -> <<>>

\* move_email: the connection may fail (the call then returns False); a
\* destination that is no key of default_list is looked up in the folder list
\* and created if it is not there, which may fail unnoticed; selecting the
\* source raises for an unbound default_list or an unknown key, and a source
\* the server does not have makes copy raise; the answer of copy is not read
MoveEmail ==
    /\ step = "called"
    /\ \E connected \in BOOLEAN, created \in BOOLEAN :
        LET names == default_list(request.host)
            known == request.destination_folder \in DOMAIN names
            destination_folder == IF known THEN names[request.destination_folder]
                                  ELSE request.destination_folder
            listed == \E f \in DOMAIN folders : Find(f, destination_folder, 0) >= 0
            after == IF names # <<>> /\ ~known /\ ~listed /\ created
                     THEN (destination_folder :> {}) @@ folders ELSE folders
            key == ToLower(request.mailbox)
            selected == /\ names # <<>> /\ key \in DOMAIN names
                        /\ names[key] \in DOMAIN after
            copied == /\ selected
                      /\ request.email_id \in after[names[key]]
                      /\ destination_folder \in DOMAIN after
        IN  /\ folders' = IF ~connected THEN folders
                          ELSE IF copied
                               THEN [after EXCEPT ![destination_folder] =
                                                      @ \cup {request.email_id}]
                               ELSE after
            /\ returned' = Val("bool", IF connected /\ selected THEN "True" ELSE "False")
    /\ step' = "returned"
    /\ UNCHANGED <<request, seen, malformed, phoneme, temp, register>>

\* the calls of move_email of the model, on an account whose Inbox holds the
\* messages 1 and 2 and which may have a folder Work
InitMove ==
    /\ AtRest({"handler", "mailserver"})
    /\ request \in [host : {"imap.outlook.com", "imap.gmail.com", "imap.example.com"},
                    email_id : 1..3,
                    mailbox : {"INBOX", "sent", "nowhere"},
                    destination_folder : {"trash", "archive", "Work"}]
    /\ \E work \in {<<>>, "Work" :> {}} :
          folders = work @@ [f \in {default_list(request.host)[k] :
                                      k \in DOMAIN default_list(request.host)} |->
                                IF f \in {"Inbox", "inbox"} THEN {1, 2} ELSE {}]
    /\ seen = {} /\ malformed = {}
    /\ returned = None /\ step = "called"

SpecMove == InitMove /\ [][MoveEmail]_vars

RECURSIVE FetchLoop(_, _, _, _)
\* the loop of get_new_emails from the message id on, count messages of the
\* search result being behind it, flags the messages that carry \Seen and
\* out the ids appended so far: a message among the first max_emails is
\* fetched, which sets \Seen, and read, which may raise, and loses \Seen again
\* only in an UNSEEN search without mark_as_read; every later message of the
\* result loses \Seen unfetched
FetchLoop(id, count, flags, out) ==
    LET found == CASE request.message_type = "ALL" -> TRUE
                   [] request.message_type = "UNSEEN" -> id \notin seen
                   [] OTHER -> id \in seen
        fetched == flags \cup {id}
    IN  IF id > NumMessages THEN [seen |-> flags, out |-> out, raised |-> FALSE]
        ELSE IF ~found THEN FetchLoop(id + 1, count, flags, out)
        ELSE IF count >= request.max_emails
             THEN FetchLoop(id + 1, count + 1, flags \ {id}, out)
        ELSE IF id \in malformed
             THEN [seen |-> fetched, out |-> out, raised |-> TRUE]
        ELSE FetchLoop(id + 1, count + 1,
                       IF request.message_type = "UNSEEN" /\ ~request.mark_as_read
                       THEN fetched \ {id} ELSE fetched,
                       Append(out, id))

\* get_new_emails: [] for a host without default_list, for a mailbox that is
\* no key of it, for a failed connection and for a mailbox the server does not
\* have (search then raises); otherwise the loop over the search result
GetNewEmails ==
    /\ step = "called"
    /\ \E connected \in BOOLEAN :
        LET names == default_list(request.host)
            key == ToLower(request.mailbox)
            reached == /\ names # <<>> /\ key \in DOMAIN names /\ connected
                       /\ names[key] \in DOMAIN folders
            loop == FetchLoop(1, 0, seen, <<>>)
        IN  /\ seen' = IF reached THEN loop.seen ELSE seen
            /\ returned' = [none |-> FALSE,
                            d |-> IF reached /\ ~loop.raised THEN loop.out ELSE <<>>]
    /\ step' = "returned"
    /\ UNCHANGED <<request, folders, malformed, phoneme, temp, register>>

\* the calls of get_new_emails of the model, on an account whose inbox holds
\* the messages 1..NumMessages, any of them read, the second one possibly
\* with a part that cannot be read
InitNew ==
    /\ AtRest({"handler", "mailserver"})
    /\ request \in [host : {"imap.outlook.com", "imap.gmail.com", "imap.example.com"},
                    mailbox : {"INBOX", "nowhere"},
                    message_type : {"ALL", "UNSEEN", "SEEN"},
                    mark_as_read : BOOLEAN,
                    max_emails : 1..NumMessages]
    /\ folders = [f \in {default_list(request.host)[k] :
                           k \in DOMAIN default_list(request.host)} |->
                     IF f \in {"Inbox", "inbox"} THEN 1..NumMessages ELSE {}]
    /\ seen \in SUBSET (1..NumMessages)
    /\ malformed \in {{}, {2}}
    /\ returned = None /\ step = "called"

SpecNew == InitNew /\ [][GetNewEmails]_vars

(***************************************************************************)
(* UploadAndChunk.upload_and_chunk                                         *)
(* (jivas/deepdoc_action/modules/upload_and_chunk.py).  A URL is the file  *)
(* name get_filename gives it, the outcome of requests.get and the content *)
(* served; temp maps each file of the .temp directory to its content.      *)
(***************************************************************************)
\* what chunk returns for a file of the given content, converted item by
\* item as by lines 134-163; chunk raises on the content "bad"
converted(content) ==
    [i \in 1..(IF content = "x" THEN 2 ELSE 1) |->
        [id |-> "", metadata |-> <<>>, text |-> content \o "-" \o ToString(i)]]

RECURSIVE Download(_, _, _, _)
\* the first loop from the k-th URL on: a response with status 200 is
\* written to its file and the path appended to file_paths
Download(urls, k, files, file_paths) ==
    IF k > Len(urls) THEN [files |-> files, file_paths |-> file_paths]
    ELSE IF urls[k].status = "200"
         THEN Download(urls, k + 1,
                       (urls[k].file :> urls[k].content) @@ files,
                       Append(file_paths, urls[k].file))
         ELSE Download(urls, k + 1, files, file_paths)

\* upload_and_chunk: the downloads, then the second loop, whose body ends
\* with return results: the first file is chunked and removed and the call
\* returns, with the ValueError object if chunk raised; without a file the
\* loop body never runs and the call returns None
UploadAndChunk ==
    /\ step = "called"
    /\ LET got == Download(request, 1, temp, <<>>)
           temp_file_path == got.file_paths[1]
       IN  IF got.file_paths = <<>>
           THEN temp' = got.files /\ returned' = None
           ELSE /\ temp' = [f \in DOMAIN got.files \ {temp_file_path} |-> got.files[f]]
                /\ returned' = IF got.files[temp_file_path] = "bad"
                               THEN Val("ValueError", temp_file_path)
                               ELSE [none |-> FALSE,
                                     d |-> converted(got.files[temp_file_path])]
    /\ step' = "returned"
    /\ UNCHANGED <<request, phoneme, mailserver, register>>

\* the calls of the model: up to MaxUrls URLs
InitUpload ==
    /\ AtRest({"handler"})
    /\ \E n \in 0..MaxUrls :
          request \in [1..n -> [file : {"a.pdf", "b.pdf"},
                                status : {"200", "404", "error"},
                                content : {"x", "y", "bad"}]]
    /\ returned = None /\ step = "called"

SpecUpload == InitUpload /\ [][UploadAndChunk]_vars

(***************************************************************************)
(* FacebookAPI.parse_verification_request                                  *)
(* (jivas/facebook_action/modules/facebook_api.py).  The query parameters  *)
(* are a dict of strings; request.get(key) of an absent key is None.       *)
(***************************************************************************)
\* the condition of line 36 with the token only: the mode is not looked at
VerifiedByTokenOnly(hub_mode, hub_verify_token, verify_token) ==
    hub_verify_token = Val("str", verify_token)

\* the condition of line 36
Verified(hub_mode, hub_verify_token, verify_token) ==
    hub_verify_token = Val("str", verify_token) /\ hub_mode = Val("str", "subscribe")

\* the value parse_verification_request returns
parse_verification_request(req, verify_token) ==
    LET get(k) == IF k \in DOMAIN req THEN Val("str", req[k]) ELSE Val("None", "")
        hub_challenge == get("hub.challenge")
    IN  IF Verified(get("hub.mode"), get("hub.verify_token"), verify_token)
        THEN (IF hub_challenge # Val("None", "") THEN hub_challenge ELSE Val("str", ""))
        ELSE Dict([message |-> "Invalid token or mode", code |-> 403])

ParseVerificationRequest ==
    /\ step = "called"
    /\ returned' = parse_verification_request(request.request, request.verify_token)
    /\ step' = "returned"
    /\ UNCHANGED <<request, phoneme, mailserver, temp, register>>

\* the verification requests of the model: each query parameter absent or
\* one of a few strings, against an expected token
InitVerification ==
    /\ AtRest({"handler"})
    /\ request \in
          [request : {m @@ t @@ c :
                        m \in Options("hub.mode", {"subscribe", "unsubscribe", ""}),
                        t \in Options("hub.verify_token", {"secret", "guess", ""}),
                        c \in Options("hub.challenge", {"1158201444", ""})},
           verify_token : {"secret", ""}]
    /\ returned = None /\ step = "called"

SpecVerification == InitVerification /\ [][ParseVerificationRequest]_vars

(***************************************************************************)
(* WppconnectAPI.register_wppconnect_action                                *)
(* (jivas/wppconnect_action/modules/wppconnect_api.py): the polling loop   *)
(* against the WPPConnect server, one action per iteration.  Python's None *)
(* is written "None"; clock is time.time() - start_time in seconds.        *)
(***************************************************************************)
\* what get_status may return: the error of a failed request, or the
\* status-session answer, with or without a qrcode entry
StatusResults ==
    {[error |-> e, status |-> "None", qrcode |-> FALSE, version |-> "None"] :
        e \in {"401 Client Error: Unauthorized for url", "503 Server Error"}}
    \cup {[error |-> "None", status |-> s, qrcode |-> q, version |-> "2.8.6"] :
            s \in {"CLOSED", "QRCODE", "CONNECTED", "INITIALIZING"}, q \in BOOLEAN}

\* one iteration of the while loop: get_status, the branch its answer
\* selects, then sleep(5); the requests of the iteration take up to
\* MaxLatency seconds.  create_instance answers with a token or with an
\* error, get_qrcode with the code or with an error, and an answer of
\* get_qrcode without "qrcode" makes line 506 raise KeyError
PollStatus ==
    /\ step = "called"
    /\ clock < request.timeout /\ ~can_break
    /\ \E status_result \in StatusResults, answered \in BOOLEAN, latency \in 0..MaxLatency :
        LET unauthorized == /\ status_result.error # "None"
                            /\ Find(status_result.error, "401 Client Error:", 0) >= 0
            branch == CASE unauthorized -> "create"
                        [] status_result.status = "CLOSED" -> "start"
                        [] status_result.status = "QRCODE" /\ status_result.qrcode -> "qrcode"
                        [] status_result.status = "CONNECTED" -> "restart"
                        [] OTHER -> "wait"
            raises == branch = "qrcode" /\ ~answered
        IN  /\ version' = status_result.version
            /\ api_key' = IF branch = "create"
                          THEN (IF answered THEN "token" ELSE "None") ELSE api_key
            /\ qr_code' = IF branch = "qrcode" /\ answered THEN "iVBORw0KGgo=" ELSE qr_code
            /\ status' = CASE branch = "create" -> "CREATED"
                           [] branch = "start" -> "STARTING"
                           [] branch = "qrcode" -> status_result.status
                           [] branch = "restart" -> "UPDATING WEBHOOK"
                           [] OTHER -> "CONNECTING"
            /\ can_break' = ((branch = "qrcode" /\ answered) \/ branch = "restart")
            /\ clock' = IF raises THEN clock + latency ELSE clock + latency + 5
            /\ step' = IF raises THEN "raised" ELSE "called"
    /\ UNCHANGED <<request, returned, phoneme, mailserver, temp>>

\* the loop condition is false: the result dict is returned
ReturnResult ==
    /\ step = "called"
    /\ ~(clock < request.timeout /\ ~can_break)
    /\ returned' = Dict([qr_code |-> qr_code, api_key |-> api_key,
                         instance_id |-> request.instance_id,
                         status |-> status, version |-> version])
    /\ step' = "returned"
    /\ UNCHANGED <<request, phoneme, mailserver, temp, register>>

\* the calls of the model: the locals as lines 482-488 set them
InitRegister ==
    /\ AtRest({"handler", "register"})
    /\ request \in [instance_id : {"agent1"}, api_key : {"key"}, timeout : {0, 12, 60}]
    /\ returned = None /\ step = "called"
    /\ clock = 0 /\ can_break = FALSE /\ status = "" /\ qr_code = ""
    /\ api_key = request.api_key /\ version = ""

SpecRegister == InitRegister /\ [][PollStatus \/ ReturnResult]_vars

(***************************************************************************)
(* What the claims about phone numbers speak of.                           *)
(***************************************************************************)
RECURSIVE DigitsOf(_)
\* the digit characters of s, in order
DigitsOf(s) ==
    IF Len(s) <= 1 THEN (IF s \in Digit THEN s ELSE "")
    ELSE DigitsOf(Slice(s, 0, Len(s) \div 2)) \o DigitsOf(Slice(s, Len(s) \div 2, Len(s)))

RECURSIVE Hyphenated(_)
\* the characters of ds joined by single hyphens
Hyphenated(ds) ==
    IF Len(ds) <= 1 THEN ds
    ELSE At(ds, 1) \o "-" \o Hyphenated(Slice(ds, 1, Len(ds)))

Contains(s, sub) == Find(s, sub, 0) >= 0

IsSep(c) == c \in {" ", "-"}

AllDigits(s) == s # "" /\ \A i \in 1..Len(s) : At(s, i) \in Digit

\* a number written DDD sep DDD sep DDDD lies at offset p, between word boundaries
TenDigitAt(s, p) ==
    /\ p + 12 <= Len(s)
    /\ AllDigits(Slice(s, p, p + 3)) /\ IsSep(At(s, p + 4))
    /\ AllDigits(Slice(s, p + 4, p + 7)) /\ IsSep(At(s, p + 8))
    /\ AllDigits(Slice(s, p + 8, p + 12))
    /\ Boundary(s, p) /\ Boundary(s, p + 12)

\* a number written DDD sep DDDD lies at offset p, between word boundaries
SevenDigitAt(s, p) ==
    /\ p + 8 <= Len(s)
    /\ AllDigits(Slice(s, p, p + 3)) /\ IsSep(At(s, p + 4))
    /\ AllDigits(Slice(s, p + 4, p + 8))
    /\ Boundary(s, p) /\ Boundary(s, p + 8)

\* a number written (DDD) sep DDD sep DDD lies at offset p
ParenNumberAt(s, p) ==
    /\ p + 13 <= Len(s)
    /\ At(s, p + 1) = "(" /\ AllDigits(Slice(s, p + 1, p + 4)) /\ At(s, p + 5) = ")"
    /\ IsSep(At(s, p + 6)) /\ AllDigits(Slice(s, p + 6, p + 9))
    /\ IsSep(At(s, p + 10)) /\ AllDigits(Slice(s, p + 10, p + 13))
    /\ ~IsWord(At(s, p + 14))

\* the number at offsets p to q of the input stands in the text as its digits
\* joined by single hyphens, behind the digits that stood before it
SpelledAt(p, q) ==
    LET spelled == Hyphenated(DigitsOf(Slice(orig, p, q)))
    IN  \E r \in 0..Len(text) :
            /\ Slice(text, r, r + Len(spelled)) = spelled
            /\ DigitsOf(Slice(text, 0, r)) = DigitsOf(Slice(orig, 0, p))

\* C5: after process_phone_numbers, every 10-digit number DDD sep
\* DDD sep DDDD and every 7-digit number DDD sep DDDD of the input (sep a
\* space or a hyphen, the number between word boundaries) stands in the text
\* as its digits joined by single hyphens.
C5_EveryNumberSpelled ==
    pc = "phone" =>
        \A p \in 0..Len(orig) :
            /\ TenDigitAt(orig, p) => SpelledAt(p, p + 12)
            /\ SevenDigitAt(orig, p) => SpelledAt(p, p + 8)

\* The numbers the second pattern does not interfere with: every 10-digit
\* number of the input, and every 7-digit number of the input that a
\* parenthesized number (DDD) sep DDD sep DDD does not follow directly, stands
\* in the text as its digits joined by single hyphens.
NumberSpelledUnlessParenFollows ==
    pc = "phone" =>
        \A p \in 0..Len(orig) :
            /\ TenDigitAt(orig, p) => SpelledAt(p, p + 12)
            /\ (SevenDigitAt(orig, p) /\ ~ParenNumberAt(orig, p + 8))
                  => SpelledAt(p, p + 8)

\* C6: after process_phone_numbers, a number (DDD) sep DDD sep DDD that stands
\* at the start of the input or after a space stands in the text as its nine
\* digits joined by single hyphens.
C6_ParenNumberSpelled ==
    pc = "phone" =>
        \A p \in 0..Len(orig) :
            (ParenNumberAt(orig, p) /\ (p = 0 \/ At(orig, p) = " ")) =>
                SpelledAt(p, p + 13)

\* the spans <<p, q>> of s that the k-th pattern matches: a 10-digit number, a
\* parenthesized number after a word character (the pattern starts with \b),
\* a 7-digit number
PhoneSpans(s, k) ==
    CASE k = 1 -> {<<p, p + 12>> : p \in {q \in 0..Len(s) : TenDigitAt(s, q)}}
      [] k = 2 -> {<<p, p + 13>> :
                      p \in {q \in 0..Len(s) : ParenNumberAt(s, q) /\ IsWord(At(s, q))}}
      [] OTHER -> {<<p, p + 8>> : p \in {q \in 0..Len(s) : SevenDigitAt(s, q)}}

Disjoint(S) == \A a \in S, b \in S : a = b \/ a[2] <= b[1] \/ b[2] <= a[1]

RECURSIVE RewriteSpans(_, _, _)
\* s from offset p on, with every span of S replaced by its digits joined by
\* single hyphens and every other character kept
RewriteSpans(s, p, S) ==
    LET q == FirstAt({x \in p..Len(s) : \E sp \in S : sp[1] = x})
        sp == CHOOSE x \in S : x[1] = q
    IN  IF q < 0 THEN Slice(s, p, Len(s))
        ELSE Slice(s, p, q) \o Hyphenated(DigitsOf(Slice(s, q, sp[2])))
             \o RewriteSpans(s, sp[2], S)

\* the text before the step that ran last
Before == IF Len(hist) <= 1 THEN orig ELSE hist[Len(hist) - 1]

\* C7: process_phone_numbers changes only spans that one of its patterns
\* matches: each pattern turns the text it is applied to into that text with
\* disjoint spans the pattern matches replaced by their digits joined by
\* hyphens and every character outside them left in place; the digits of the
\* text stay the digits of the input, in order; and an input that no pattern
\* matches is returned as it is.
C7_PhoneFrame ==
    pc \in {"phone1", "phone2", "phone"} =>
        /\ \E S \in SUBSET PhoneSpans(Before, Len(hist)) :
              Disjoint(S) /\ text = RewriteSpans(Before, 0, S)
        /\ DigitsOf(text) = DigitsOf(orig)
        /\ ((\A k \in 1..3 : PhoneSpans(orig, k) = {}) => text = orig)

\* a number was rewritten inside a text that holds other characters before
\* and after it
C7_Witness ==
    /\ pc = "phone"
    /\ text # orig
    /\ \E k \in 1..3 : \E sp \in PhoneSpans(orig, k) :
          /\ sp[1] > 0 /\ sp[2] < Len(orig)
          /\ text = Slice(orig, 0, sp[1])
                    \o Hyphenated(DigitsOf(Slice(orig, sp[1], sp[2])))
                    \o Slice(orig, sp[2], Len(orig))

(***************************************************************************)
(* The claims about the whole call.                                        *)
(***************************************************************************)
\* phonetic_format with the passes in the order of the claim, each on the
\* output of the one before
Composed(t, m) ==
    remove_markdown(
        process_word_replacements(
            process_emails(process_urls(process_phone_numbers(t))), m).val)

\* C1: when phonetic_format returns, the five passes have run in the order
\* phone numbers, URLs, emails, word replacement, markdown stripping, each on
\* the output of the one before, and the result is remove_markdown(
\* process_word_replacements(process_emails(process_urls(
\* process_phone_numbers(text))), mapping)).
C1_PassesInOrder ==
    pc = "done" =>
        /\ Len(hist) = 7
        /\ hist[3] = process_phone_numbers(orig)
        /\ hist[4] = process_urls(hist[3])
        /\ hist[5] = process_emails(hist[4])
        /\ hist[6] = process_word_replacements(hist[5], mapping).val
        /\ hist[7] = remove_markdown(hist[6])
        /\ text = hist[7]
        /\ text = Composed(orig, mapping)

\* a call has returned in which the phone pass, the URL pass, the word
\* replacement and the stripping each changed the text
C1_Witness ==
    /\ pc = "done"
    /\ hist[3] # orig
    /\ hist[4] # hist[3]
    /\ hist[6] # hist[5]
    /\ hist[7] # hist[6]

\* C2: phonetic_format never raises, whatever the text and the mapping.
C2_NeverRaises == pc # "raised"

NoPhoneNumber(s) ==
    \A p \in 0..Len(s) : \A k \in 1..Len(phone_patterns) :
        ~PhoneMatchAt(s, p, phone_patterns[k])

NoUrl(s) == UrlFindall(s, 0) = <<>> /\ MarkdownFindall(s, 0) = <<>>

NoEmail(s) == EmailFindall(s, 0) = <<>>

NoKeyOccurs(s, m) ==
    \A i \in 1..Len(m) : ~Contains(ToLower(s), ToLower(m[i][1]))

\* C3: a call on a text that holds no phone number, no URL and no address,
\* with a mapping none of whose keys occurs in it, returns
\* remove_markdown(text); the empty text gives the empty string.
C3_PlainTextOnlyStripped ==
    (/\ pc \in {"done", "raised"}
     /\ NoPhoneNumber(orig) /\ NoUrl(orig) /\ NoEmail(orig)
     /\ NoKeyOccurs(orig, mapping))
        => (pc = "done" /\ text = remove_markdown(orig) /\ (orig = "" => text = ""))

\* C4: stripping twice equals stripping once: remove_markdown applied to a
\* result of remove_markdown returns it unchanged.
C4_StripIdempotent == pc = "restripped" => text = hist[7]

(***************************************************************************)
(* The claims about URLs, the spelling sub-routine and addresses.          *)
(***************************************************************************)
\* s is one URL, whole
IsUrl(s) == s # "" /\ UrlMatchEnd(s, 0) = Len(s)

\* the parts of the URL s: <<scheme, domain, path>>
UrlParts(s) ==
    LET i == Find(s, "://", 0)
        rest == Slice(s, i + 3, Len(s))
        j == Find(rest, "/", 0)
    IN  <<Slice(s, 0, i),
          IF j < 0 THEN rest ELSE Slice(rest, 0, j),
          IF j < 0 THEN "" ELSE Slice(rest, j + 1, Len(rest))>>

RECURSIVE PiecesOf(_, _)
\* the pieces of segment s between the splitter characters
PiecesOf(s, splitter) ==
    LET p == Find(s, splitter, 0)
    IN  IF p < 0 THEN <<s>>
        ELSE <<Slice(s, 0, p)>> \o PiecesOf(Slice(s, p + 1, Len(s)), splitter)

AllAlnum(s) == \A i \in 1..Len(s) : IsAlnum(At(s, i))

RECURSIVE SpelledPieces(_, _, _)
\* the pieces ps from piece k on, each one's characters joined by hyphens, with
\* the separator phrase between the pieces
SpelledPieces(ps, k, separator) ==
    IF k > Len(ps) THEN ""
    ELSE Hyphenated(ps[k]) \o (IF k < Len(ps) THEN separator ELSE "")
         \o SpelledPieces(ps, k + 1, separator)

\* C8: the URL pass renders scheme://domain/path as the spelled scheme,
\* " colon slash slash ", the domain's labels spelled with " dot " between
\* them and, when the path is not empty, " slash " and the spelled path, then
\* one space; "https://example.com/page" becomes
\* "h-t-t-p-s colon slash slash e-x-a-m-p-l-e dot c-o-m slash p-a-g-e ".
C8_UrlRendering ==
    (pc = "urls" /\ IsUrl(orig)) =>
        LET parts == UrlParts(orig)
            labels == PiecesOf(parts[2], ".")
            steps == PiecesOf(parts[3], "/")
        IN  /\ (/\ \A k \in 1..Len(labels) : AllAlnum(labels[k])
                /\ \A k \in 1..Len(steps) : AllAlnum(steps[k]))
                  => text = Hyphenated(parts[1]) \o " colon slash slash "
                            \o SpelledPieces(labels, 1, " dot ")
                            \o (IF parts[3] # ""
                                THEN " slash " \o SpelledPieces(steps, 1, " slash ")
                                ELSE "")
                            \o " "
            /\ orig = "https://example.com/page" =>
                  text = "h-t-t-p-s colon slash slash e-x-a-m-p-l-e dot c-o-m slash p-a-g-e "

EndsWith(s, suffix) == Len(s) >= Len(suffix) /\ Slice(s, Len(s) - Len(suffix), Len(s)) = suffix

\* C9: in the spelling of a segment (here the domain of a URL the URL pass
\* has rewritten), no piece's rendering ends with a hyphen, and no hyphen
\* stands before the separator phrase or at the end of the rendered segment.
C9_NoTrailingHyphen ==
    (pc = "urls" /\ IsUrl(orig)) =>
        LET domain == UrlParts(orig)[2]
            labels == PiecesOf(domain, ".")
            rendered == create_tts(domain, " dot ", ".")
        IN  Contains(text, rendered) =>
              /\ \A k \in 1..Len(labels) : ~EndsWith(convert_each_char(labels[k]), "-")
              /\ ~Contains(rendered, "- dot ")
              /\ ~EndsWith(rendered, "-")

\* C10: the email pass replaces a recognized address local@domain by the
\* spelling of local, " at " and the spelling of domain; "a.b@example.com"
\* becomes "a-dot-b at e-x-a-m-p-l-e dot c-o-m".
C10_EmailRendering ==
    (pc = "emails" /\ EmailMatchEnd(orig, 0) = Len(orig)) =>
        LET i == Find(orig, "@", 0)
            locals == PiecesOf(Slice(orig, 0, i), ".")
            labels == PiecesOf(Slice(orig, i + 1, Len(orig)), ".")
        IN  /\ (/\ \A k \in 1..Len(locals) : AllAlnum(locals[k])
                /\ \A k \in 1..Len(labels) : AllAlnum(labels[k]))
                  => text = SpelledPieces(locals, 1, " dot ") \o " at "
                            \o SpelledPieces(labels, 1, " dot ")
            /\ orig = "a.b@example.com" =>
                  text = "a-dot-b at e-x-a-m-p-l-e dot c-o-m"

(***************************************************************************)
(* What the claims about markdown links and bare URLs speak of.            *)
(***************************************************************************)
\* a markdown link whose url is an http(s) URL starts at offset p of s
LinkAt(s, p) ==
    /\ MarkdownMatch(s, p) # <<>>
    /\ UrlMatchEnd(MarkdownMatch(s, p)[2], 0) >= 0

RECURSIVE LinksInPlace(_, _)
\* s from offset p on, every markdown link whose url is an http(s) URL
\* replaced where it stands by the spelling of its url
LinksInPlace(s, p) ==
    LET q == FirstAt({x \in p..Len(s) : MarkdownMatch(s, x) # <<>>})
        m == MarkdownMatch(s, q)
    IN  IF q < 0 THEN Slice(s, p, Len(s))
        ELSE (IF LinkAt(s, q) THEN Slice(s, p, q) \o process_url(m[2])
              ELSE Slice(s, p, m[3]))
             \o LinksInPlace(s, m[3])

RECURSIVE FirstOccurrences(_, _, _)
\* s with, for each URL string of found from the k-th on, the first occurrence
\* of that string replaced by its spelling
FirstOccurrences(s, found, k) ==
    IF k > Len(found) THEN s
    ELSE LET at == Find(s, found[k], 0)
             one == IF at < 0 THEN s
                    ELSE Slice(s, 0, at) \o process_url(found[k])
                         \o Slice(s, at + Len(found[k]), Len(s))
         IN  FirstOccurrences(one, found, k + 1)

\* the text the URL pass was run on
BeforeUrls == hist[Len(phone_patterns)]

\* The order of the two passes of process_urls: the result is the text with
\* the links replaced where they stand, and then, for each bare URL found in
\* that text, the first occurrence of the URL string replaced.
LinksThenFirstOccurrences ==
    pc = "urls" =>
        LET linked == LinksInPlace(BeforeUrls, 0)
        IN  text = FirstOccurrences(linked, UrlFindall(linked, 0), 1)

\* C11: process_urls rewrites the markdown links before the bare URLs: each
\* link whose url is an http(s) URL is replaced as a whole by the spelling of
\* its url, then each bare URL found triggers one replacement of the first
\* occurrence of its string, and the spelling put in for a link is still
\* there afterwards: the bare pass does not spell any of it again.
C11_LinksBeforeBareUrls ==
    pc = "urls" =>
        /\ LinksThenFirstOccurrences
        /\ \A p \in 0..Len(BeforeUrls) :
              LinkAt(BeforeUrls, p) =>
                  Contains(text, process_url(MarkdownMatch(BeforeUrls, p)[2]))

(***************************************************************************)
(* What the claims about the custom word replacement speak of.             *)
(***************************************************************************)
\* the key stands at offset p of s as a whole term, in any letter case
WholeTermAt(s, p, key) ==
    /\ p + Len(key) <= Len(s)
    /\ ToLower(Slice(s, p, p + Len(key))) = ToLower(key)
    /\ (p = 0 \/ ~IsWord(At(s, p)))
    /\ (p + Len(key) = Len(s) \/ ~IsWord(At(s, p + Len(key) + 1)))

RECURSIVE Replaced(_, _, _, _)
\* s from offset p on with the whole-term occurrences of the key, taken from
\* the left, replaced by the value as it is written
Replaced(s, p, key, value) ==
    LET q == FirstAt({x \in p..Len(s) : WholeTermAt(s, x, key)})
    IN  IF q < 0 THEN Slice(s, p, Len(s))
        ELSE Slice(s, p, q) \o value \o Replaced(s, q + Len(key), key, value)

\* the text the word replacement was run on
BeforeWords == hist[Len(phone_patterns) + 2]

\* C12: with a mapping of two keys one of which is part of the other, the
\* word replacement applies the longer key first and the shorter key to what
\* that leaves, whatever the insertion order; with NASA and NASA HQ as keys,
\* "Visit NASA HQ today" becomes "Visit N-A-S-A Headquarters today".
C12_LongestKeyFirst ==
    (pc = "words" /\ Len(mapping) = 2) =>
        LET long == IF Len(mapping[1][1]) > Len(mapping[2][1]) THEN 1 ELSE 2
            short == 3 - long
            first == Replaced(BeforeWords, 0, mapping[long][1], mapping[long][2])
        IN  /\ Contains(mapping[long][1], mapping[short][1])
            /\ text = Replaced(first, 0, mapping[short][1], mapping[short][2])
            /\ orig = "Visit NASA HQ today" => text = "Visit N-A-S-A Headquarters today"

\* the phrase stood in the text and was replaced as a phrase
C12_Witness ==
    /\ pc = "words"
    /\ orig = "Visit NASA HQ today"
    /\ mapping[1][1] = "NASA"
    /\ text = "Visit N-A-S-A Headquarters today"

\* the pairs of the mapping m inserted in the opposite order
Reversed(m) == [i \in 1..Len(m) |-> m[Len(m) + 1 - i]]

\* C13: the result of the word replacement does not depend on the insertion
\* order of the mapping: the same pairs inserted in the opposite order give
\* the same text.
C13_InsertionOrderIrrelevant ==
    pc = "words" =>
        text = process_word_replacements(BeforeWords, Reversed(mapping)).val

\* the offsets of s covered by a whole-term occurrence of the key
TermOffsets(s, key) ==
    {x \in 1..Len(s) : \E p \in 0..Len(s) :
        WholeTermAt(s, p, key) /\ p < x /\ x <= p + Len(key)}

\* C14: with one key, the word replacement replaces the whole-term
\* occurrences of the key and nothing else: an occurrence that a word character
\* precedes or follows stays as it is; the key cat leaves category unchanged.
C14_WholeTermsOnly ==
    (pc = "words" /\ Len(mapping) = 1) =>
        /\ text = Replaced(BeforeWords, 0, mapping[1][1], mapping[1][2])
        /\ TermOffsets(BeforeWords, mapping[1][1]) = {} => text = BeforeWords
        /\ (orig = "category" /\ mapping[1][1] = "cat") => text = "category"

\* the key stood as a term and inside a longer word, and only the term was
\* replaced
C14_Witness ==
    /\ pc = "words"
    /\ orig = "cat category"
    /\ mapping[1][1] = "cat"
    /\ text = "feline category"

\* C15: the word replacement matches the key in any letter case and puts in
\* the value exactly as the mapping writes it, character for character,
\* backslashes and group references included.
C15_ValueVerbatim ==
    (pc \in {"words", "raised"} /\ Len(mapping) = 1) =>
        /\ pc = "words"
        /\ text = Replaced(BeforeWords, 0, mapping[1][1], mapping[1][2])

\* C16: a key that holds special characters of re is matched as literal
\* text only, and no error of the pattern's compilation leaves the word
\* replacement or phonetic_format.
C16_KeyLiteral ==
    (pc \in {"words", "raised"} /\ Len(mapping) = 1) =>
        /\ pc = "words"
        /\ text = Replaced(BeforeWords, 0, mapping[1][1], mapping[1][2])

\* the key a.b was replaced where it stood and the text axb, which the
\* unescaped key would match, was left
C16_Witness ==
    /\ pc = "words"
    /\ mapping[1][1] = "a.b"
    /\ orig = "axb a.b"
    /\ text = "axb dot"

(***************************************************************************)
(* What the claims about markdown and HTML speak of.                       *)
(***************************************************************************)
\* C17: for a heading line, bold text and a link the call returns the
\* heading's text without its #, the bold text without its delimiters, and
\* nothing of the link: "# Title\n**bold** [link](http://x.com)" gives
\* "Title\nbold".
C17_HeadingBoldLink ==
    pc = "done" =>
        /\ orig = "# Title\n**bold** [link](http://x.com)" => text = "Title\nbold"
        /\ orig = "# Title\n**bold**" => text = "Title\nbold"
        /\ orig = "**bold** [link](http://x.com)" => text = "bold"

\* the text remove_markdown was run on
BeforeMarkdown == hist[Len(phone_patterns) + 3]

\* the offset at which the link or image span [text](url) that starts at
\* offset p of s ends, -1 if none starts there
LinkSpanEnd(s, p) ==
    LET q == Find(s, "]", p + 1)
        r == Find(s, ")", q + 2)
    IN  IF At(s, p + 1) = "[" /\ q >= 0 /\ At(s, q + 2) = "(" /\ r >= 0
        THEN r + 1 ELSE -1

RECURSIVE WithoutLinkSpans(_, _)
\* s from offset p on without its link spans
WithoutLinkSpans(s, p) ==
    LET q == FirstAt({x \in p..Len(s) : LinkSpanEnd(s, x) >= 0})
    IN  IF q < 0 THEN Slice(s, p, Len(s))
        ELSE Slice(s, p, q) \o WithoutLinkSpans(s, LinkSpanEnd(s, q))

\* s holds none of the characters the other passes of remove_markdown take
\* for markup
NoOtherMarkup(s) ==
    \A i \in 1..Len(s) : At(s, i) \notin {"#", "*", "~", "-", ">", "<"}

\* C18: remove_markdown removes every link span [text](url) in full and
\* nothing outside the spans: of a text that holds no other markup, what
\* stands before, between and behind the spans is kept.
C18_LinkSpansOnly ==
    (pc = "done" /\ NoOtherMarkup(BeforeMarkdown)) =>
        text = Strip(WithoutLinkSpans(BeforeMarkdown, 0))

\* the offset at which the HTML tag that starts at offset p of s ends, -1
\* if none starts there
TagEnd(s, p) ==
    LET k == Find(s, ">", p + 1)
    IN  IF At(s, p + 1) = "<" /\ At(s, p + 2) \in Lower \cup Upper \cup {"/"} /\ k >= 0
        THEN k + 1 ELSE -1

RECURSIVE RunsOutsideTags(_, _)
\* the runs of text of s from offset p on that lie outside its tags
RunsOutsideTags(s, p) ==
    LET q == FirstAt({x \in p..Len(s) : TagEnd(s, x) >= 0})
    IN  IF q < 0 THEN <<Slice(s, p, Len(s))>>
        ELSE <<Slice(s, p, q)>> \o RunsOutsideTags(s, TagEnd(s, q))

\* s holds tags and text only: no character the markdown passes take for
\* markup, and no > but the one that closes a tag
TagsAndTextOnly(s) ==
    /\ \A i \in 1..Len(s) : At(s, i) \notin {"#", "*", "~", "-", "["}
    /\ \A i \in 1..Len(s) :
          At(s, i) = ">" => \E p \in 0..Len(s) : TagEnd(s, p) = i

\* C19: remove_markdown strips the HTML tags and keeps the text: of a text of
\* tags and text only, the result holds no tag, and every run of text that
\* lay outside the tags is still in it.
C19_TagsStrippedTextKept ==
    (pc = "done" /\ TagsAndTextOnly(BeforeMarkdown)) =>
        LET runs == RunsOutsideTags(BeforeMarkdown, 0)
        IN  /\ \A p \in 0..Len(text) : TagEnd(text, p) < 0
            /\ \A i \in 1..Len(runs) : Contains(text, Strip(runs[i]))

(***************************************************************************)
(* What the claim about calls side by side speaks of.                      *)
(***************************************************************************)
\* C20: calls of phonetic_format that run side by side, in any interleaving
\* of their steps, do not influence one another: a call that has returned
\* has returned what the same call gives when run alone, and no call changes
\* the dict it was given.
C20_CallsIndependent ==
    /\ [](\A i \in DOMAIN calls :
            calls[i].pc = "done" =>
                calls[i].text = Composed(calls[i].arg, shared_mapping))
    /\ [][shared_mapping' = shared_mapping]_vars

\* one call has returned a text while another, called with another text, was
\* between feed and get_data of its MLStripper
C20_Witness ==
    /\ DOMAIN calls # {}
    /\ calls[1].pc = "done" /\ calls[1].text # ""
    /\ calls[2].pc = "fed" /\ stripper_text[StripperOf(2)] # ""
    /\ calls[1].arg # calls[2].arg

(***************************************************************************)
(* What the claim about the spelled text and the stripping pass speaks of.  *)
(***************************************************************************)
\* the text s holds nothing of its own that the stripping pass removes
MarkupFree(s) == remove_markdown(s) = Strip(s)

\* C26: the stripping pass that ends phonetic_format leaves the spelled text
\* of the phone, URL and email passes intact: for an input that holds no
\* markup of its own and that the word replacement leaves alone, the result
\* is what those passes produced with the whitespace at its two ends trimmed,
\* every hyphen and every space of the spellings included.
C26_SpelledTextKept ==
    (pc = "done" /\ MarkupFree(orig) /\ BeforeMarkdown = BeforeWords) =>
        text = Strip(BeforeWords)

(***************************************************************************)
(* What the claim about double substitution of phone numbers speaks of.     *)
(***************************************************************************)
\* where offset x of s stands in the result of the k-th pattern on s: the
\* length of what the text before x becomes
Image(s, k, x) ==
    Len(RewriteSpans(Slice(s, 0, x), 0, {m \in PhoneSpans(s, k) : m[2] <= x}))

\* the spans of R, spans of s, as they stand in the result of the k-th
\* pattern on s
Carried(R, s, k) == {<<Image(s, k, r[1]), Image(s, k, r[2])>> : r \in R}

\* the spans of the result of the k-th pattern on s that hold the
\* hyphen-joined digits the pattern wrote
Written(s, k) == Carried(PhoneSpans(s, k), s, k)

Overlaps(a, b) == a[1] < b[2] /\ b[1] < a[2]

\* C27: process_phone_numbers applies the 10-digit, the parenthesized and the
\* 7-digit pattern in this order, each to the text the pattern before it
\* produced, and no later pattern matches a span that overlaps the
\* hyphen-joined digits an earlier pattern wrote.
C27_NoDoubleSubstitution ==
    pc = "phone" =>
        LET w1 == Written(orig, 1)
            w2 == Written(hist[1], 2) \cup Carried(w1, hist[1], 2)
        IN  /\ hist[1] = RewriteSpans(orig, 0, PhoneSpans(orig, 1))
            /\ hist[2] = RewriteSpans(hist[1], 0, PhoneSpans(hist[1], 2))
            /\ hist[3] = RewriteSpans(hist[2], 0, PhoneSpans(hist[2], 3))
            /\ \A m \in PhoneSpans(hist[1], 2), w \in w1 : ~Overlaps(m, w)
            /\ \A m \in PhoneSpans(hist[2], 3), w \in w2 : ~Overlaps(m, w)

\* the three patterns applied in order, each rewriting every span it matches
\* in the text the pattern before it produced
PatternsInOrder ==
    pc = "phone" =>
        /\ hist[1] = RewriteSpans(orig, 0, PhoneSpans(orig, 1))
        /\ hist[2] = RewriteSpans(hist[1], 0, PhoneSpans(hist[1], 2))
        /\ hist[3] = RewriteSpans(hist[2], 0, PhoneSpans(hist[2], 3))

(***************************************************************************)
(* What the claim about the spans process_urls rewrites speaks of.          *)
(***************************************************************************)
RECURSIVE UrlsInPlace(_, _)
\* s from offset p on, every span the URL pattern matches replaced where it
\* stands by its spelling and every other character kept
UrlsInPlace(s, p) ==
    LET q == FirstAt({x \in p..Len(s) : UrlMatchEnd(s, x) >= 0})
        e == UrlMatchEnd(s, q)
    IN  IF q < 0 THEN Slice(s, p, Len(s))
        ELSE Slice(s, p, q) \o process_url(Slice(s, q, e)) \o UrlsInPlace(s, e)

\* the text s holds no markdown link
NoLink(s) == \A p \in 0..Len(s) : MarkdownMatch(s, p) = <<>>

\* C28: process_urls rewrites exactly the spans the URL pattern matches: of
\* a text without markdown links, every matched bare URL is replaced by its
\* spelling at the position of the match, and every character outside the
\* matched spans is left as it is.
C28_UrlSpansOnly ==
    (pc = "urls" /\ NoLink(BeforeUrls)) => text = UrlsInPlace(BeforeUrls, 0)

(***************************************************************************)
(* What the claim about parse_inbound_message speaks of.                    *)
(***************************************************************************)
\* the event of the request is one of the three the parser handles
ValidEvent(r) ==
    "event" \in DOMAIN r /\ r["event"].kind = "str" /\ r["event"].s \in valid_events

\* C21: parse_inbound_message returns a dict for every request: the empty
\* dict when the event is not one of onmessage, onpollresponse, onack or when
\* parsing fails, and for every other request the parsed payload with its
\* sender_number, message_id, event_type and message_type, whether or not the
\* request carries a notifyName.
C21_AlwaysADict ==
    step = "returned" =>
        /\ ~returned.none
        /\ (~ValidEvent(request) \/ ParsingRaises(request)) => returned.d = <<>>
        /\ (ValidEvent(request) /\ ~ParsingRaises(request)) =>
              /\ {"sender_number", "message_id", "event_type", "message_type"}
                    \subseteq DOMAIN returned.d
              /\ \A k \in DOMAIN Payload(request) :
                    returned.d[k] = Payload(request)[k]

(***************************************************************************)
(* What the claims about the mailbox speak of.                              *)
(***************************************************************************)
\* the folder of the server that a folder name given to a call stands for
FolderOf(name) ==
    LET names == default_list(request.host)
    IN  IF ToLower(name) \in DOMAIN names THEN names[ToLower(name)] ELSE name

\* C22: whenever move_email returns True, the message email_id is in the
\* destination folder and no longer in the source mailbox.
C22_MovedWhenTrue ==
    (step = "returned" /\ returned = Val("bool", "True")) =>
        /\ FolderOf(request.destination_folder) \in DOMAIN folders
        /\ request.email_id \in folders[FolderOf(request.destination_folder)]
        /\ request.email_id \notin folders[FolderOf(request.mailbox)]

\* C23: get_new_emails called with mark_as_read=False marks no message as
\* read: whatever the message_type, every message that was unread before the
\* call is unread when the call has returned.
C23_UnreadStaysUnread ==
    [][(step = "called" /\ step' = "returned" /\ ~request.mark_as_read) =>
           \A m \in 1..NumMessages : m \notin seen => m \notin seen']_vars

(***************************************************************************)
(* What the claims about upload_and_chunk speak of.                         *)
(***************************************************************************)
\* C24: when upload_and_chunk returns, none of the temporary files it
\* downloaded into the .temp directory exists any more, for any number of
\* URLs and whether chunking succeeded or failed.
C24_NoTempFileLeft ==
    step = "returned" => DOMAIN temp = {}

RECURSIVE ChunksFrom(_, _)
\* the converted chunks of the URLs from the k-th on, in their order
ChunksFrom(urls, k) ==
    IF k > Len(urls) THEN <<>>
    ELSE converted(urls[k].content) \o ChunksFrom(urls, k + 1)

\* C29: upload_and_chunk processes each downloaded file: when every URL of
\* the list, each with a file name of its own, was downloaded and chunked
\* without error, the list returned holds the converted chunks of all of
\* them, in download order.
C29_EveryFileChunked ==
    (/\ step = "returned" /\ Len(request) >= 1
     /\ \A i \in DOMAIN request :
           /\ request[i].status = "200" /\ request[i].content # "bad"
           /\ \A j \in DOMAIN request : request[j].file = request[i].file => j = i)
        => returned = [none |-> FALSE, d |-> ChunksFrom(request, 1)]

(***************************************************************************)
(* What the claim about the webhook verification speaks of.                 *)
(***************************************************************************)
\* the request carries the expected token and asks to subscribe
TokenAndModeMatch ==
    /\ "hub.verify_token" \in DOMAIN request.request
    /\ request.request["hub.verify_token"] = request.verify_token
    /\ "hub.mode" \in DOMAIN request.request
    /\ request.request["hub.mode"] = "subscribe"

\* C25: parse_verification_request returns the hub.challenge of the request,
\* or "" when there is none, if and only if the hub.verify_token of the
\* request equals the expected token and hub.mode is subscribe; every other
\* request gets the result "Invalid token or mode" with code 403 and never
\* the challenge.
C25_ChallengeOnlyWhenVerified ==
    step = "returned" =>
        LET challenge == IF "hub.challenge" \in DOMAIN request.request
                         THEN request.request["hub.challenge"] ELSE ""
        IN  /\ TokenAndModeMatch => returned = Val("str", challenge)
            /\ ~TokenAndModeMatch =>
                  /\ returned = Dict([message |-> "Invalid token or mode", code |-> 403])
                  /\ returned # Val("str", challenge)

\* a request with the expected token and mode subscribe was answered with its
\* challenge
C25_Witness ==
    /\ step = "returned" /\ TokenAndModeMatch
    /\ "hub.challenge" \in DOMAIN request.request
    /\ returned = Val("str", "1158201444")

(***************************************************************************)
(* What the claim about register_wppconnect_action speaks of.               *)
(***************************************************************************)
\* C30: register_wppconnect_action never raises, whatever the server
\* answers; it polls only while less than timeout seconds have elapsed and
\* neither a QR code was fetched nor a CONNECTED session restarted, so that
\* it ends at the latest one iteration after the timeout; and what it returns
\* is the dict with the keys qr_code, api_key, instance_id, status, version.
C30_ReturnsWithoutRaising ==
    /\ step # "raised"
    /\ clock < request.timeout + MaxLatency + 5
    /\ step = "returned" =>
          /\ DOMAIN returned.d = {"qr_code", "api_key", "instance_id", "status", "version"}
          /\ can_break \/ clock >= request.timeout
          /\ can_break => (qr_code # "" \/ status = "UPDATING WEBHOOK")

\* the same with the raising left aside: the loop is bounded by the timeout
\* and the result has its five keys
RegisterEndsUnlessRaised ==
    /\ clock < request.timeout + MaxLatency + 5
    /\ step = "returned" =>
          /\ DOMAIN returned.d = {"qr_code", "api_key", "instance_id", "status", "version"}
          /\ can_break \/ clock >= request.timeout
          /\ can_break => (qr_code # "" \/ status = "UPDATING WEBHOOK")

====
